---- MODULE Spec2Model ----
(***************************************************************************)
(* GraphMLExporter of ndex_webapp_python_exporters/exporters.py: one       *)
(* export call, from the CX document on the input stream to the sequence   *)
(* of writes on the output stream.                                         *)
(*                                                                         *)
(* Python values are records [t, i, s, l]: t is type(value).__name__, i    *)
(* the integer (or 0/1 for a bool), s the text of a str (or the decimal    *)
(* literal of a float), l the items of a list.  A dict is the              *)
(* sequence of its (key, value) pairs in insertion order, which is what    *)
(* dict.items() walks: a node, an edge and an attribute record are dicts.  *)
(*                                                                         *)
(* The output stream is the sequence of writes made on it: a raw write     *)
(* (out.write(text)) or an element (ET.ElementTree(e).write(out)).         *)
(***************************************************************************)
EXTENDS Integers, Sequences, FiniteSets, TLC

VARIABLES inputstream, cxnetwork, out, pc, result,
          attributes, verbose, exit_code, logging_shutdown, calls

\* what an export call reads and writes nothing of: the other attributes of
\* the exporter object, the command line of main and what main leaves, and
\* the number of export calls made on the exporter
caller_vars == <<attributes, verbose, exit_code, logging_shutdown, calls>>

vars == <<inputstream, cxnetwork, out, pc, result,
          attributes, verbose, exit_code, logging_shutdown, calls>>

(***************************************************************************)
(* Bounds                                                                  *)
(***************************************************************************)
\* the number of aspect fragments of the documents put together from the
\* pool of fragments (the documents written out in full are longer)
MaxFrags == 2

(***************************************************************************)
(* CX format keys                                                          *)
(***************************************************************************)
AT_ID_KEY == "@id"
PO_KEY == "po"
V_KEY == "v"
N_KEY == "n"
S_KEY == "s"
T_KEY == "t"
R_KEY == "r"
D_KEY == "d"


(***************************************************************************)
(* Python values                                                           *)
(***************************************************************************)
NoneV == [t |-> "NoneType", i |-> 0, s |-> "", l |-> <<>>]
IntV(n) == [t |-> "int", i |-> n, s |-> "", l |-> <<>>]
StrV(x) == [t |-> "str", i |-> 0, s |-> x, l |-> <<>>]
FloatV(x) == [t |-> "float", i |-> 0, s |-> x, l |-> <<>>]
BoolV(b) == [t |-> "bool", i |-> IF b THEN 1 ELSE 0, s |-> "", l |-> <<>>]
ListV(elems) == [t |-> "list", i |-> 0, s |-> "", l |-> elems]

\* type(value).__name__
type_name(v) == v.t

\* str() of a scalar
str_scalar(v) ==
  CASE v.t = "int" -> ToString(v.i)
    [] v.t = "str" -> v.s
    [] v.t = "float" -> v.s
    [] v.t = "bool" -> (IF v.i = 1 THEN "True" ELSE "False")
    [] OTHER -> "None"

\* repr() of a list item: a str is quoted, the rest print as str() does
repr_item(v) == IF v.t = "str" THEN "'" \o v.s \o "'" ELSE str_scalar(v)

RECURSIVE join_repr(_)
join_repr(elems) ==
  IF elems = <<>> THEN ""
  ELSE IF Len(elems) = 1 THEN repr_item(elems[1])
  ELSE repr_item(elems[1]) \o ", " \o join_repr(Tail(elems))

\* str(val), as used for every data text and attribute value
str(v) == IF v.t = "list" THEN "[" \o join_repr(v.l) \o "]" ELSE str_scalar(v)

(***************************************************************************)
(* dict access on a sequence of (key, value) pairs                         *)
(***************************************************************************)
HasKey(d, k) == \E j \in 1..Len(d) : d[j][1] = k

Get(d, k) == d[CHOOSE j \in 1..Len(d) : d[j][1] = k][2]

\* Attr(..., NoD) is an attribute record that has no 'd' key
NoD == "<no d>"

NetAttr(n, v, d) ==
  << <<N_KEY, StrV(n)>>, <<V_KEY, v>> >>
    \o (IF d = NoD THEN <<>> ELSE << <<D_KEY, StrV(d)>> >>)

Attr(po, n, v, d) == << <<PO_KEY, IntV(po)>> >> \o NetAttr(n, v, d)

Frag(aspect, items) == [aspect |-> aspect, items |-> items]

(***************************************************************************)
(* The CX fragments the input documents are built from (the fixture of     *)
(* tests/exporters.py, split and varied)                                   *)
(***************************************************************************)
Node1 == << <<"@id", IntV(1)>>, <<"n", StrV("Node with Types")>> >>
Node2 == << <<"@id", IntV(2)>>, <<"n", StrV("A")>> >>
Node3 == << <<"@id", IntV(3)>>, <<"n", StrV("B")>>, <<"r", StrV("B&C")>>,
            <<"score", IntV(4)>> >>

Edge1 == << <<"i", StrV("interacts_with")>>, <<"s", IntV(1)>>,
            <<"@id", IntV(1)>>, <<"t", IntV(2)>> >>
Edge2 == << <<"i", StrV("interacts_with")>>, <<"s", IntV(1)>>,
            <<"@id", IntV(2)>>, <<"t", IntV(3)>> >>
Edge3 == << <<"@id", IntV(3)>>, <<"s", IntV(2)>>, <<"t", IntV(3)>>,
            <<"weight", IntV(7)>> >>

FragmentPool ==
  << Frag("nodes", <<Node1>>),
     Frag("nodes", <<Node2>>),
     Frag("nodes", <<Node3>>),
     Frag("nodes", <<Node2, Node1>>),
     Frag("edges", <<Edge1>>),
     Frag("edges", <<Edge2, Edge3>>),
     Frag("nodeAttributes",
          << Attr(1, "int", IntV(5), "integer"),
             Attr(1, "int_list", ListV(<<IntV(5), IntV(-20)>>), "list_of_integer"),
             Attr(1, "string", StrV("mystring"), NoD),
             Attr(1, "string", StrV("myotherstring"), NoD) >>),
     Frag("nodeAttributes",
          << Attr(2, "int", StrV("five"), NoD),
             Attr(9, "lost", BoolV(TRUE), "boolean") >>),
     Frag("edgeAttributes",
          << Attr(1, "interaction", StrV("interacts_with"), NoD) >>),
     Frag("edgeAttributes",
          << Attr(2, "weight", FloatV("2.5"), "double"),
             Attr(1, "weight", IntV(3), NoD),
             Attr(9, "lost", StrV("x"), NoD) >>),
     Frag("networkAttributes",
          << NetAttr("name", StrV("Test Types"), NoD) >>),
     Frag("networkAttributes",
          << NetAttr("description", StrV("a network"), NoD),
             NetAttr("description", IntV(5), "integer"),
             NetAttr("version", NoneV, NoD) >>),
     Frag("cyViews", << << <<"@id", IntV(0)>>, <<"s", IntV(0)>> >> >>),
     Frag("networkAttributes", << NetAttr("name", StrV("B&C"), NoD) >>) >>

RECURSIVE SeqsUpTo(_)
\* the sequences of at most n positions of the pool
SeqsUpTo(n) ==
  IF n = 0 THEN { <<>> }
  ELSE LET shorter == SeqsUpTo(n - 1)
       IN shorter \cup { Append(ix, p) : ix \in { s \in shorter : Len(s) = n - 1 },
                                          p \in 1..Len(FragmentPool) }

RECURSIVE Flatten(_, _)
\* the items of every fragment of the document named aspect, in order
Flatten(cx, aspect) ==
  IF cx = <<>> THEN <<>>
  ELSE (IF Head(cx).aspect = aspect THEN Head(cx).items ELSE <<>>)
         \o Flatten(Tail(cx), aspect)

\* node ids and edge ids are unique within their own collection
UniqueIds(items) ==
  \A a, b \in 1..Len(items) :
     a /= b => Get(items[a], AT_ID_KEY) /= Get(items[b], AT_ID_KEY)

\* get_small_network_withsubnet of tests/exporters.py (longNumber, which is
\* 281474976710655 there, is cut to the integers of the checker; the aspect
\* is not one the exporter reads)
SmallNetworkWithSubnet ==
  << Frag("numberVerification", << << <<"longNumber", IntV(2147483647)>> >> >>),
     Frag("metaData",
          << << <<"idCounter", IntV(0)>>, <<"name", StrV("nodes")>> >>,
             << <<"idCounter", IntV(0)>>, <<"name", StrV("edges")>> >> >>),
     Frag("networkAttributes", << NetAttr("name", StrV("Test Types"), NoD) >>),
     Frag("subNetworks",
          << << <<"nodes", ListV(<<IntV(1), IntV(2), IntV(3)>>)>>,
                <<"edges", ListV(<<IntV(1), IntV(2)>>)>>,
                <<"@id", IntV(0)>> >> >>),
     Frag("cyViews", << << <<"s", IntV(0)>>, <<"@id", IntV(0)>> >> >>),
     Frag("nodes", <<Node1>>),
     Frag("nodes", <<Node2>>),
     Frag("nodes", << << <<"@id", IntV(3)>>, <<"n", StrV("B")>> >> >>),
     Frag("edges", <<Edge1>>),
     Frag("edges", <<Edge2>>),
     Frag("nodeAttributes",
          << Attr(1, "long_list", ListV(<<IntV(5), IntV(75)>>), "list_of_long"),
             Attr(1, "int", IntV(5), "integer"),
             Attr(1, "double", FloatV("2.5"), "double"),
             Attr(1, "int_list", ListV(<<IntV(5), IntV(-20)>>), "list_of_integer"),
             Attr(1, "double_list", ListV(<<FloatV("2.5"), FloatV("3.7")>>),
                  "list_of_double"),
             Attr(1, "long", IntV(5), "long"),
             Attr(1, "string_list",
                  ListV(<<StrV("mystring"), StrV("myotherstring")>>), "list_of_string"),
             Attr(1, "bool", BoolV(TRUE), "boolean"),
             Attr(1, "bool_list", ListV(<<BoolV(FALSE), BoolV(TRUE)>>),
                  "list_of_boolean"),
             Attr(1, "string", StrV("mystring"), NoD) >>),
     Frag("edgeAttributes",
          << Attr(1, "interaction", StrV("interacts_with"), NoD) >>),
     Frag("edgeAttributes",
          << Attr(2, "interaction", StrV("interacts_with"), NoD) >>) >>

\* every fragment of the pool but the single nodes 1 and 2, in one document
VariedNetwork ==
  [j \in 1..11 |-> FragmentPool[<<13, 12, 4, 3, 5, 6, 8, 7, 10, 9, 11>>[j]]]

\* the documents written out in full
LongDocuments == { SmallNetworkWithSubnet, VariedNetwork }

\* the documents of 1 to MaxFrags fragments of the pool
ShortDocuments ==
  { [j \in 1..Len(ix) |-> FragmentPool[ix[j]]] : ix \in SeqsUpTo(MaxFrags) \ {<<>>} }

Documents ==
  { cx \in ShortDocuments \cup LongDocuments :
      /\ UniqueIds(Flatten(cx, "nodes"))
      /\ UniqueIds(Flatten(cx, "edges")) }

\* what the stream holds: a CX document, or text json.load rejects
InputStreams ==
  { [cx |-> cx, valid |-> TRUE] : cx \in Documents }
    \cup { [cx |-> <<>>, valid |-> FALSE] }

(***************************************************************************)
(* The loaded network (self._cxnetwork)                                    *)
(***************************************************************************)
\* self._cxnetwork = None
None_cx ==
  [isnone |-> TRUE, nodes |-> <<>>, edges |-> <<>>, nodeAttributes |-> <<>>,
   edgeAttributes |-> <<>>, networkAttributes |-> <<>>]

RecognizedAspects ==
  {"nodes", "edges", "nodeAttributes", "edgeAttributes", "networkAttributes"}

RECURSIVE _split_json_overwrite(_, _)
\* a parser in which a later fragment of an aspect replaces the earlier ones
_split_json_overwrite(cx, doc) ==
  IF cx = <<>> THEN doc
  ELSE LET f == Head(cx)
       IN _split_json_overwrite(Tail(cx),
            IF f.aspect \in RecognizedAspects
            THEN [doc EXCEPT ![f.aspect] = f.items]
            ELSE doc)

RECURSIVE _split_json(_, _)
\* the aspect parser: the first fragment of a recognized aspect starts its
\* collection, every later fragment of that aspect is appended to it, and any
\* other aspect is skipped
_split_json(cx, doc) ==
  IF cx = <<>> THEN doc
  ELSE LET f == Head(cx)
       IN _split_json(Tail(cx),
            IF f.aspect \in RecognizedAspects
            THEN [doc EXCEPT ![f.aspect] = @ \o f.items]
            ELSE doc)

\* self._cxnetwork = ndex2.create_nice_cx_from_raw_cx(json.load(inputstream))
_loadcx(stream) == _split_json(stream.cx, [None_cx EXCEPT !.isnone = FALSE])

\* self._cxnetwork.get_nodes(): the nodes, in insertion order
get_nodes(net) == net.nodes

get_edges(net) == net.edges

\* a network that hands every node every record
get_node_attributes_any(net, node) == net.nodeAttributes

\* self._cxnetwork.get_node_attributes(node): the records the network keeps
\* under the node's id; <<>> stands for None (the network keeps no list for
\* an id no record named)
get_node_attributes(net, node) ==
  SelectSeq(net.nodeAttributes, LAMBDA a : Get(a, PO_KEY) = Get(node, AT_ID_KEY))

get_edge_attributes(net, edge) ==
  SelectSeq(net.edgeAttributes, LAMBDA a : Get(a, PO_KEY) = Get(edge, AT_ID_KEY))

\* self._cxnetwork.get_name(): the value of the first network attribute
\* named 'name', None when there is none
get_name(net) ==
  LET named == SelectSeq(net.networkAttributes,
                         LAMBDA a : Get(a, N_KEY) = StrV("name"))
  IN IF named = <<>> THEN NoneV ELSE Get(Head(named), V_KEY)

(***************************************************************************)
(* What is written                                                         *)
(***************************************************************************)
\* ET.Element(tag, attrib): attrib is the sequence of (name, value) pairs in
\* insertion order; text "" stands for no text
Element(tag, attrib, text, children) ==
  [tag |-> tag, attrib |-> attrib, text |-> text, children |-> children,
   kind |-> "element"]

\* out.write(text)
Raw(text) ==
  [tag |-> "", attrib |-> <<>>, text |-> text, children |-> <<>>, kind |-> "raw"]

GraphMLExporter_NODE == "node"
GraphMLExporter_EDGE == "edge"
GraphMLExporter_SOURCE == "source"
GraphMLExporter_TARGET == "target"
GraphMLExporter_DATA == "data"
GraphMLExporter_KEY == "key"
GraphMLExporter_ID == "id"
ATTR_NAME == "attr.name"
ATTR_TYPE == "attr.type"

_convert_data_type(data_type) ==
  CASE data_type = "int" -> "integer"
    [] data_type = "str" -> "string"
    [] data_type = "bool" -> "boolean"
    [] data_type = "float" -> "double"
    [] OTHER -> data_type

\* `val is 'i'`, `val is AT_ID_KEY`: identity of str objects.  CPython keeps
\* one object per one-character string, so for 'i', 'n' and 'r' identity is
\* equality; no name of the pool is '@id'
_translate_edge_key_names(val) ==
  IF val = "i" THEN "interaction"
  ELSE IF val = AT_ID_KEY THEN "key"
  ELSE val

\* a writer that keeps the CX names n and r
_translate_node_key_names_kept(val) == val

_translate_node_key_names(val) ==
  IF val = N_KEY THEN "name"
  ELSE IF val = R_KEY THEN "represents"
  ELSE val

(***************************************************************************)
(* Data elements under a node and under an edge                            *)
(***************************************************************************)
DataElement(kval, val) ==
  Element(GraphMLExporter_DATA, << <<GraphMLExporter_KEY, kval>> >>, str(val), <<>>)

RECURSIVE under_node_items(_)
\* for nid, val in node.items()
under_node_items(items) ==
  IF items = <<>> THEN <<>>
  ELSE LET nid == Head(items)[1]
           val == Head(items)[2]
       IN (IF nid = "@id" THEN <<>>
           ELSE << DataElement(_translate_node_key_names(nid), val) >>)
            \o under_node_items(Tail(items))

RECURSIVE under_node_attrs(_)
\* for nitem in self._cxnetwork.get_node_attributes(node)
under_node_attrs(attrs) ==
  IF attrs = <<>> THEN <<>>
  ELSE LET nid == str(Get(Head(attrs), N_KEY))
           val == Get(Head(attrs), V_KEY)
       IN (IF nid = "@id" THEN <<>>
           ELSE << DataElement(_translate_node_key_names(nid), val) >>)
            \o under_node_attrs(Tail(attrs))

_get_xml_for_under_node(net, node) ==
  under_node_items(node) \o under_node_attrs(get_node_attributes(net, node))

RECURSIVE nodes_xml(_, _)
nodes_xml(net, nodes) ==
  IF nodes = <<>> THEN <<>>
  ELSE LET node_val == Head(nodes)
           node_key == Get(node_val, AT_ID_KEY)
       IN << Element(GraphMLExporter_NODE,
                     << <<GraphMLExporter_ID, str(node_key)>> >>, "",
                     _get_xml_for_under_node(net, node_val)),
             Raw("\n") >>
            \o nodes_xml(net, Tail(nodes))

\* the writes of _generate_xml_for_nodes
_generate_xml_for_nodes(net) == nodes_xml(net, get_nodes(net))

RECURSIVE under_edge_items(_)
\* for eid, val in edge.items()
under_edge_items(items) ==
  IF items = <<>> THEN <<>>
  ELSE LET eid == Head(items)[1]
           val == Head(items)[2]
       IN (IF eid = "@id" \/ eid = "s" \/ eid = "t" THEN <<>>
           ELSE << DataElement(_translate_edge_key_names(eid), val) >>)
            \o under_edge_items(Tail(items))

RECURSIVE under_edge_attrs(_)
\* for edgeattr in self._cxnetwork.get_edge_attributes(edge): the key set
\* for 'i' and 'v' is replaced by str(edge_key) right after
under_edge_attrs(attrs) ==
  IF attrs = <<>> THEN <<>>
  ELSE LET edge_key == str(Get(Head(attrs), N_KEY))
       IN (IF edge_key /= "i" /\ edge_key /= "v" /\ (edge_key = "s" \/ edge_key = "t")
           THEN <<>>
           ELSE << DataElement(edge_key, Get(Head(attrs), V_KEY)) >>)
            \o under_edge_attrs(Tail(attrs))

_get_xml_for_under_edge(net, edge) ==
  under_edge_items(edge) \o under_edge_attrs(get_edge_attributes(net, edge))

RECURSIVE edges_xml(_, _)
edges_xml(net, edges) ==
  IF edges = <<>> THEN <<>>
  ELSE LET edge == Head(edges)
       IN << Element(GraphMLExporter_EDGE,
                     << <<GraphMLExporter_SOURCE, str(Get(edge, S_KEY))>>,
                        <<GraphMLExporter_TARGET, str(Get(edge, T_KEY))>> >>, "",
                     _get_xml_for_under_edge(net, edge)),
             Raw("\n") >>
            \o edges_xml(net, Tail(edges))

\* the edges, and then the nodes once more
_generate_xml_for_edges_then_nodes(net) ==
  edges_xml(net, get_edges(net)) \o _generate_xml_for_nodes(net)

\* the writes of _generate_xml_for_edges
_generate_xml_for_edges(net) == edges_xml(net, get_edges(net))

RECURSIVE data_xml(_)
data_xml(netattrs) ==
  IF netattrs = <<>> THEN <<>>
  ELSE << DataElement(str(Get(Head(netattrs), N_KEY)), Get(Head(netattrs), V_KEY)) >> \o data_xml(Tail(netattrs))

\* the writes of _generate_xml_for_data
_generate_xml_for_data(net) == data_xml(net.networkAttributes)

(***************************************************************************)
(* Key declarations.  A walk carries st = [keyset, el]: the names declared *)
(* so far and the key elements written so far.                             *)
(***************************************************************************)
\* a key whose first value is None gets no attr.type
NoType == "<no attr.type>"

\* kattrib of a discovered key, in insertion order
KeyElement(name, attr_type, scope) ==
  Element("key",
          << <<ATTR_NAME, name>> >>
            \o (IF attr_type = NoType THEN <<>> ELSE << <<ATTR_TYPE, attr_type>> >>)
            \o << <<"for", scope>>, <<"id", name>> >>,
          "", <<>>)

\* kattrib of a fixed key
FixedKeyElement(entry, scope) ==
  Element("key",
          << <<"for", scope>>, <<"id", entry>>, <<ATTR_NAME, entry>>,
             <<ATTR_TYPE, "string">> >>,
          "", <<>>)

Declare(st, name, attr_type, scope) ==
  [keyset |-> st.keyset \cup {name},
   el |-> Append(st.el, KeyElement(name, attr_type, scope))]

\* attr.type from the value alone
TypeOfValue(value) ==
  IF value = NoneV THEN NoType ELSE _convert_data_type(type_name(value))

\* attr.type from the 'd' of the record when it has one, else from the value
TypeOfRecord(r) ==
  IF Get(r, V_KEY) = NoneV THEN NoType
  ELSE IF HasKey(r, D_KEY) THEN _convert_data_type(str(Get(r, D_KEY)))
  ELSE _convert_data_type(type_name(Get(r, V_KEY)))

RECURSIVE net_keys(_, _)
net_keys(netattrs, st) ==
  IF netattrs = <<>> THEN st
  ELSE LET netattr == Head(netattrs)
           n_key == str(Get(netattr, N_KEY))
       IN net_keys(Tail(netattrs),
                   IF n_key \in st.keyset THEN st
                   ELSE Declare(st, n_key, TypeOfRecord(netattr), "graph"))

\* the writes of _generate_xml_for_net_keys
_generate_xml_for_net_keys(net) ==
  net_keys(net.networkAttributes, [keyset |-> {}, el |-> <<>>]).el

\* the orders in which `for entry in nodekeyset` can walk a set of two str:
\* the order of a set of str follows the hashes of the process
Orders(a, b) == { <<a, b>>, <<b, a>> }

\* the writes of _write_name_represents_keys, walking the set in this order
_write_name_represents_keys(order) ==
  [j \in 1..Len(order) |-> FixedKeyElement(order[j], "node")]

RECURSIVE node_keys_items(_, _)
\* for nid, val in node.items()
node_keys_items(items, st) ==
  IF items = <<>> THEN st
  ELSE LET nid == Head(items)[1]
           val == Head(items)[2]
       IN node_keys_items(Tail(items),
            IF nid = "@id" \/ nid = "n" \/ nid = "r" THEN st
            ELSE IF nid \in st.keyset THEN st
            ELSE Declare(st, nid, TypeOfValue(val), "node"))

RECURSIVE node_keys_attrs(_, _)
\* for nodeattr in self._cxnetwork.get_node_attributes(node)
node_keys_attrs(attrs, st) ==
  IF attrs = <<>> THEN st
  ELSE LET nodeattr == Head(attrs)
           n_key == _translate_node_key_names(str(Get(nodeattr, N_KEY)))
       IN node_keys_attrs(Tail(attrs),
            IF n_key \in st.keyset THEN st
            ELSE Declare(st, n_key, TypeOfValue(Get(nodeattr, V_KEY)), "node"))

RECURSIVE node_keys(_, _, _)
\* for id, node in self._cxnetwork.get_nodes(): the walk returns at the
\* first node that has no attributes
node_keys(net, nodes, st) ==
  IF nodes = <<>> THEN st
  ELSE LET node == Head(nodes)
           st1 == node_keys_items(node, st)
       IN IF get_node_attributes(net, node) = <<>> THEN st1
          ELSE node_keys(net, Tail(nodes),
                         node_keys_attrs(get_node_attributes(net, node), st1))

\* the writes of _generate_xml_for_node_keys
_generate_xml_for_node_keys(net, order) ==
  node_keys(net, get_nodes(net),
            [keyset |-> {"name", "represents"},
             el |-> _write_name_represents_keys(order)]).el

\* a writer that declares the fixed edge keys only when the network has edges
_write_interaction_keys_if_edges(order) ==
  IF get_edges(cxnetwork) = <<>> THEN <<>>
  ELSE [j \in 1..Len(order) |-> FixedKeyElement(order[j], GraphMLExporter_EDGE)]

\* the writes of _write_interaction_keys, walking the set in this order
_write_interaction_keys(order) ==
  [j \in 1..Len(order) |-> FixedKeyElement(order[j], GraphMLExporter_EDGE)]

RECURSIVE edge_keys_attrs(_, _)
\* for edgeattr in self._cxnetwork.get_edge_attributes(edge)
edge_keys_attrs(attrs, st) ==
  IF attrs = <<>> THEN st
  ELSE LET edgeattr == Head(attrs)
           n_key == _translate_edge_key_names(str(Get(edgeattr, N_KEY)))
       IN edge_keys_attrs(Tail(attrs),
            IF n_key \in st.keyset THEN st
            ELSE Declare(st, n_key, TypeOfRecord(edgeattr), GraphMLExporter_EDGE))

RECURSIVE edge_keys(_, _, _)
\* for id, edge in self._cxnetwork.get_edges(): an edge that has no
\* attributes is passed over
edge_keys(net, edges, st) ==
  IF edges = <<>> THEN st
  ELSE edge_keys(net, Tail(edges),
                 edge_keys_attrs(get_edge_attributes(net, Head(edges)), st))

\* the writes of _generate_xml_for_edge_keys
_generate_xml_for_edge_keys(net, order) ==
  edge_keys(net, get_edges(net),
            [keyset |-> {"interaction", "key"},
             el |-> _write_interaction_keys(order)]).el

(***************************************************************************)
(* The fixed text of _generate_xml                                         *)
(***************************************************************************)
XmlHeader ==
  "<?xml version=\"1.0\" encoding=\"UTF-8\" " \o "standalone=\"no\"?>" \o "\n"
    \o "<graphml xmlns=\"http://graphml." \o "graphdrawing.org/xmlns\">\n"

GraphOpen(net) ==
  "\n  <graph edgedefault=\"directed\" id=\"" \o str(get_name(net)) \o "\">\n"

GraphClose == "\n</graph>\n</graphml>\n"

\* theargs.verbose when the command line has no --verbose: None
NoVerbose == -1

(***************************************************************************)
(* export(inputstream, outputstream), one step per call made by export and *)
(* by _generate_xml                                                        *)
(***************************************************************************)
\* GraphMLExporter(): self._cxnetwork = None and no other attribute
Constructed ==
  /\ cxnetwork = None_cx
  /\ attributes = <<>>

\* no command line: export is called on the exporter directly
NoMain ==
  /\ verbose = NoVerbose
  /\ exit_code = {}
  /\ logging_shutdown = FALSE

Init ==
  /\ inputstream \in InputStreams
  /\ Constructed
  /\ out = <<>>
  /\ pc = "export"
  /\ result = {}
  /\ NoMain
  /\ calls = 1

\* an export that loads the document on top of the network it holds
Export_on_top ==
  /\ pc = "export"
  /\ inputstream.valid
  /\ cxnetwork' = _split_json(inputstream.cx, [cxnetwork EXCEPT !.isnone = FALSE])
  /\ pc' = "_generate_xml"
  /\ UNCHANGED <<inputstream, out, result>>
  /\ UNCHANGED caller_vars

\* _clear_internal_variables, then _loadcx on a stream json.load accepts
Export ==
  /\ pc = "export"
  /\ inputstream.valid
  /\ cxnetwork' = _loadcx(inputstream)
  /\ pc' = "_generate_xml"
  /\ UNCHANGED <<inputstream, out, result>>
  /\ UNCHANGED caller_vars

\* an export that writes the XML header before it reads the stream
ExportRaises_after_header ==
  /\ pc = "export"
  /\ ~inputstream.valid
  /\ cxnetwork' = None_cx
  /\ out' = << Raw(XmlHeader) >>
  /\ pc' = "raised"
  /\ UNCHANGED <<inputstream, result>>
  /\ UNCHANGED caller_vars

\* _clear_internal_variables, then json.load raises out of _loadcx and export
ExportRaises ==
  /\ pc = "export"
  /\ ~inputstream.valid
  /\ cxnetwork' = None_cx
  /\ pc' = "raised"
  /\ UNCHANGED <<inputstream, out, result>>
  /\ UNCHANGED caller_vars

Step(from, writes, to) ==
  /\ pc = from
  /\ out' = out \o writes
  /\ pc' = to
  /\ UNCHANGED <<inputstream, cxnetwork, result>>
  /\ UNCHANGED caller_vars

WriteHeader == Step("_generate_xml", << Raw(XmlHeader) >>, "net_keys")

NetKeys == Step("net_keys", _generate_xml_for_net_keys(cxnetwork), "node_keys")

NodeKeys ==
  \E order \in Orders("name", "represents") :
     Step("node_keys", _generate_xml_for_node_keys(cxnetwork, order), "edge_keys")

EdgeKeys ==
  \E order \in Orders("interaction", "key") :
     Step("edge_keys", _generate_xml_for_edge_keys(cxnetwork, order), "graph")

WriteGraph == Step("graph", << Raw(GraphOpen(cxnetwork)) >>, "data")

Data == Step("data", _generate_xml_for_data(cxnetwork), "nodes")

Nodes == Step("nodes", _generate_xml_for_nodes(cxnetwork), "edges")

Edges == Step("edges", _generate_xml_for_edges(cxnetwork), "close")

\* the closing write, outputstream.flush() and return 0
Finish ==
  /\ pc = "close"
  /\ out' = Append(out, Raw(GraphClose))
  /\ pc' = "done"
  /\ result' = {0}
  /\ UNCHANGED <<inputstream, cxnetwork>>
  /\ UNCHANGED caller_vars

Next ==
  \/ Export
  \/ ExportRaises
  \/ WriteHeader
  \/ NetKeys
  \/ NodeKeys
  \/ EdgeKeys
  \/ WriteGraph
  \/ Data
  \/ Nodes
  \/ Edges
  \/ Finish

Spec == Init /\ [][Next]_vars

(***************************************************************************)
(* main(args) of ndex_exporters.py, for the exporter argument graphml:     *)
(* sys.stdin is inputstream and sys.stdout is out                          *)
(***************************************************************************)
\* at most this many --verbose flags on the command line
MaxVerbose == 2

\* theargs.verbose: the count of the flags, None when there is none
Verbosities == {NoVerbose} \cup 1..MaxVerbose

MainInit ==
  /\ inputstream \in InputStreams
  /\ Constructed
  /\ out = <<>>
  /\ pc = "main"
  /\ result = {}
  /\ verbose \in Verbosities
  /\ exit_code = {}
  /\ logging_shutdown = FALSE
  /\ calls = 1

MainStep(from, to) ==
  /\ pc \in from
  /\ pc' = to
  /\ UNCHANGED <<inputstream, cxnetwork, out, result, attributes, verbose, calls>>

\* _setuplogging(theargs) with a count, then GraphMLExporter()
SetupLogging ==
  /\ verbose /= NoVerbose
  /\ MainStep({"main"}, "export")
  /\ UNCHANGED <<exit_code, logging_shutdown>>

\* _setuplogging(theargs) with no count: 10 * None raises TypeError
SetupLoggingRaises ==
  /\ verbose = NoVerbose
  /\ MainStep({"main"}, "except")
  /\ UNCHANGED <<exit_code, logging_shutdown>>

\* return exporter.export(sys.stdin, sys.stdout)
MainReturn ==
  /\ MainStep({"done"}, "finally")
  /\ exit_code' = result
  /\ UNCHANGED logging_shutdown

\* a main whose handler lets the exception go
MainExcept_propagates ==
  /\ MainStep({"raised", "except"}, "exited")
  /\ UNCHANGED <<exit_code, logging_shutdown>>

\* except Exception: logger.exception(...); return 2
MainExcept ==
  /\ MainStep({"raised", "except"}, "finally")
  /\ exit_code' = {2}
  /\ UNCHANGED logging_shutdown

\* finally: logging.shutdown()
MainFinally ==
  /\ MainStep({"finally"}, "exited")
  /\ logging_shutdown' = TRUE
  /\ UNCHANGED exit_code

MainNext ==
  \/ SetupLogging
  \/ SetupLoggingRaises
  \/ Export
  \/ ExportRaises
  \/ WriteHeader
  \/ NetKeys
  \/ NodeKeys
  \/ EdgeKeys
  \/ WriteGraph
  \/ Data
  \/ Nodes
  \/ Edges
  \/ Finish
  \/ MainReturn
  \/ MainExcept
  \/ MainFinally

SpecMain == MainInit /\ [][MainNext]_vars

(***************************************************************************)
(* One GraphMLExporter object in the hands of a caller, as in              *)
(* tests/exporters.py: the caller sets attributes of the object, calls     *)
(* _clear_internal_variables() and calls export, each call with a stream   *)
(* to read and an empty stream to write                                    *)
(***************************************************************************)
\* at most this many export calls on the object
MaxCalls == 2

\* the attributes the caller reads and sets
InternalVariables == {"_nodes", "_net_attr", "_keys_edge"}

\* the streams the caller hands to export
CallStreams ==
  { [cx |-> cx, valid |-> TRUE] :
      cx \in LongDocuments
               \cup { << FragmentPool[1] >>, << FragmentPool[11] >>,
                      << FragmentPool[5], FragmentPool[9] >> } }
    \cup { [cx |-> <<>>, valid |-> FALSE] }

\* between two calls
Idle == pc \in {"constructed", "cleared", "done", "raised"}

InstanceInit ==
  /\ inputstream = [cx |-> <<>>, valid |-> FALSE]
  /\ Constructed
  /\ out = <<>>
  /\ pc = "constructed"
  /\ result = {}
  /\ NoMain
  /\ calls = 0

\* ge._nodes = 'hi'
SetAttribute ==
  /\ Idle
  /\ \E name \in InternalVariables :
        /\ ~HasKey(attributes, name)
        /\ attributes' = Append(attributes, <<name, StrV("hi")>>)
  /\ UNCHANGED <<inputstream, cxnetwork, out, pc, result>>
  /\ UNCHANGED <<verbose, exit_code, logging_shutdown, calls>>

\* ge._clear_internal_variables(): del self._cxnetwork; self._cxnetwork = None
ClearInternalVariables ==
  /\ Idle
  /\ cxnetwork' = None_cx
  /\ pc' = "cleared"
  /\ UNCHANGED <<inputstream, out, result>>
  /\ UNCHANGED caller_vars

\* ge.export(fakein, fakeout) is entered
CallExport ==
  /\ Idle
  /\ calls < MaxCalls
  /\ inputstream' \in CallStreams
  /\ out' = <<>>
  /\ result' = {}
  /\ pc' = "export"
  /\ calls' = calls + 1
  /\ UNCHANGED <<cxnetwork, attributes, verbose, exit_code, logging_shutdown>>

InstanceNext ==
  \/ SetAttribute
  \/ ClearInternalVariables
  \/ CallExport
  \/ Export
  \/ ExportRaises
  \/ WriteHeader
  \/ NetKeys
  \/ NodeKeys
  \/ EdgeKeys
  \/ WriteGraph
  \/ Data
  \/ Nodes
  \/ Edges
  \/ Finish

SpecInstance == InstanceInit /\ [][InstanceNext]_vars

(***************************************************************************)
(* Reading the input document and the output                               *)
(***************************************************************************)
Done == pc = "done"

TheNodes == Flatten(inputstream.cx, "nodes")
TheEdges == Flatten(inputstream.cx, "edges")
TheNodeAttributes == Flatten(inputstream.cx, "nodeAttributes")
TheEdgeAttributes == Flatten(inputstream.cx, "edgeAttributes")
TheNetworkAttributes == Flatten(inputstream.cx, "networkAttributes")

Range(seq) == { seq[j] : j \in 1..Len(seq) }

IdOf(item) == Get(item, AT_ID_KEY)
OwnerOf(a) == Get(a, PO_KEY)
NameOf(a) == Get(a, N_KEY).s
ValueOf(a) == Get(a, V_KEY)

\* the records of attrs owned by the node or edge
OwnedBy(attrs, item) == SelectSeq(attrs, LAMBDA a : OwnerOf(a) = IdOf(item))

IsElement(w, tag) == w.kind = "element" /\ w.tag = tag
IsKey(w, scope) == IsElement(w, "key") /\ Get(w.attrib, "for") = scope
IsNewline(w) == w.kind = "raw" /\ w.text = "\n"

ElementsOf(tag) == SelectSeq(out, LAMBDA w : IsElement(w, tag))
KeysOf(scope) == SelectSeq(out, LAMBDA w : IsKey(w, scope))
KeyIds(scope) == [j \in 1..Len(KeysOf(scope)) |-> Get(KeysOf(scope)[j].attrib, "id")]

\* the key names a <data> of the element refers to
DataKeys(w) == [j \in 1..Len(w.children) |-> Get(w.children[j].attrib, "key")]

\* the name CX gives a reserved property in GraphML
NodeKeyName(k) == IF k = "n" THEN "name" ELSE IF k = "r" THEN "represents" ELSE k
EdgeKeyName(k) == IF k = "i" THEN "interaction" ELSE IF k = "@id" THEN "key" ELSE k

\* the property names of a node (an edge): its inline properties but the
\* identity (and the end points), then its attributes, in document order
InlineNames(item, skipped) ==
  SelectSeq([j \in 1..Len(item) |-> item[j][1]], LAMBDA k : k \notin skipped)
AttributeNames(attrs) == [j \in 1..Len(attrs) |-> NameOf(attrs[j])]
Translated(names, Tr(_)) == [j \in 1..Len(names) |-> Tr(names[j])]

NodeNames(node) ==
  Translated(InlineNames(node, {"@id"})
               \o AttributeNames(OwnedBy(TheNodeAttributes, node)), NodeKeyName)
EdgeNames(edge) ==
  Translated(InlineNames(edge, {"@id", "s", "t"})
               \o AttributeNames(OwnedBy(TheEdgeAttributes, edge)), EdgeKeyName)

RECURSIVE NodeWalk(_)
NodeWalk(nodes) ==
  IF nodes = <<>> THEN <<>> ELSE NodeNames(Head(nodes)) \o NodeWalk(Tail(nodes))

RECURSIVE EdgeWalk(_)
EdgeWalk(edges) ==
  IF edges = <<>> THEN <<>> ELSE EdgeNames(Head(edges)) \o EdgeWalk(Tail(edges))

FirstAt(seq, x) ==
  CHOOSE j \in 1..Len(seq) : seq[j] = x /\ \A h \in 1..(j - 1) : seq[h] /= x

\* every name of ids is met on the walk, and ids lists them as first met
InFirstSeenOrder(ids, walk) ==
  /\ \A p \in 1..Len(ids) : ids[p] \in Range(walk)
  /\ \A p \in 1..(Len(ids) - 1) : FirstAt(walk, ids[p]) < FirstAt(walk, ids[p + 1])

(***************************************************************************)
(* C1                                                                      *)
(***************************************************************************)
C1_Header ==
  "<?xml version=\"1.0\" encoding=\"UTF-8\" standalone=\"no\"?>\n<graphml xmlns=\"http://graphml.graphdrawing.org/xmlns\">\n"

C1_Closing == "\n</graph>\n</graphml>\n"

\* the <graph ...> openings the document may carry: the id is the text of a
\* network attribute value, or a stand-in for a missing name
C1_GraphOpenings ==
  { "\n  <graph edgedefault=\"directed\" id=\"" \o g \o "\">\n" :
      g \in {"unknown", "None"} \cup { str(ValueOf(a)) : a \in Range(TheNetworkAttributes) } }

\* the place of a write in the order of the document; 0 for any other write
C1_Place(w) ==
  CASE w.kind = "raw" /\ w.text = C1_Header -> 1
    [] IsKey(w, "graph") -> 2
    [] IsKey(w, "node") -> 3
    [] IsKey(w, "edge") -> 4
    [] w.kind = "raw" /\ w.text \in C1_GraphOpenings -> 5
    [] IsElement(w, "data") -> 6
    [] IsElement(w, "node") -> 7
    [] IsElement(w, "edge") -> 8
    [] w.kind = "raw" /\ w.text = C1_Closing -> 9
    [] OTHER -> 0

\* the output without the line break that ends each node and edge
C1_Written == SelectSeq(out, LAMBDA w : ~IsNewline(w))

C1_Places == [j \in 1..Len(C1_Written) |-> C1_Place(C1_Written[j])]

C1_Once(places, place) ==
  Cardinality({ j \in 1..Len(places) : places[j] = place }) <= 1

\* the places never step back, 1, 5 and 9 are taken at most once, the first
\* is 1 and whatever follows the <graph> opening has it before
C1_InOrder(places) ==
  /\ \A j \in 1..Len(places) : places[j] \in 1..9
  /\ \A j \in 1..(Len(places) - 1) : places[j] <= places[j + 1]
  /\ C1_Once(places, 1) /\ C1_Once(places, 5) /\ C1_Once(places, 9)
  /\ places /= <<>> => places[1] = 1
  /\ \A j \in 1..Len(places) : places[j] > 5 => \E k \in 1..j : places[k] = 5

C1_Finished(places) ==
  /\ places /= <<>>
  /\ places[Len(places)] = 9
  /\ \E k \in 1..Len(places) : places[k] = 5

C1_Discovered(ids) == SubSeq(ids, 3, Len(ids))

C1_FixedFirst(ids, a, b) == ids /= <<>> => Len(ids) >= 2 /\ {ids[1], ids[2]} = {a, b}

\* C1: at every point of an export the output so far is, in this order: the
\* XML declaration with the <graphml> opening, the graph keys, the node keys
\* (name and represents, then the discovered names as first seen), the edge
\* keys (interaction and key, then the discovered names as first seen), the
\* <graph> opening, the graph data, the nodes, the edges and the closing; a
\* finished export has written the header, the <graph> opening and the
\* closing.  So no key follows the <graph> opening and no edge precedes a node.
C1_FixedOrder ==
  /\ C1_InOrder(C1_Places)
  /\ \A j \in 1..Len(out) : IsNewline(out[j]) => j > 1 /\ out[j - 1].tag \in {"node", "edge"}
  /\ C1_FixedFirst(KeyIds("node"), "name", "represents")
  /\ C1_FixedFirst(KeyIds("edge"), "interaction", "key")
  /\ InFirstSeenOrder(C1_Discovered(KeyIds("node")), NodeWalk(TheNodes))
  /\ InFirstSeenOrder(C1_Discovered(KeyIds("edge")), EdgeWalk(TheEdges))
  /\ Done => C1_Finished(C1_Places)

\* a finished export that wrote a graph key, a discovered node key, a
\* discovered edge key, graph data, a node and an edge
C1_Witness ==
  /\ Done
  /\ KeysOf("graph") /= <<>>
  /\ Len(KeysOf("node")) > 2
  /\ Len(KeysOf("edge")) > 2
  /\ ElementsOf("data") /= <<>>
  /\ ElementsOf("node") /= <<>>
  /\ ElementsOf("edge") /= <<>>

(***************************************************************************)
(* C2                                                                      *)
(***************************************************************************)
C2_Declared(w, scope) == \A k \in Range(DataKeys(w)) : k \in Range(KeyIds(scope))

\* C2: every key a <data> element refers to, under the graph, under a node
\* or under an edge, is the id of a <key> element of that scope written
\* before it.
C2_DataKeysDeclared ==
  /\ \A j \in 1..Len(out) :
        IsElement(out[j], "data") => Get(out[j].attrib, "key") \in Range(KeyIds("graph"))
  /\ \A j \in 1..Len(out) : IsElement(out[j], "node") => C2_Declared(out[j], "node")
  /\ \A j \in 1..Len(out) : IsElement(out[j], "edge") => C2_Declared(out[j], "edge")

(***************************************************************************)
(* C3                                                                      *)
(***************************************************************************)
\* attr.type of a key element, NoType when it has none
KeyType(w) ==
  IF HasKey(w.attrib, ATTR_TYPE) THEN Get(w.attrib, ATTR_TYPE) ELSE NoType

\* the (name, type) pairs a node, an edge or the network carries, in
\* document order; the type is the one its own value (or record) gives
C3_InlineCarriers(item, skipped, Tr(_)) ==
  LET kept == SelectSeq(item, LAMBDA kv : kv[1] \notin skipped)
  IN [j \in 1..Len(kept) |-> <<Tr(kept[j][1]), TypeOfValue(kept[j][2])>>]

C3_NodeCarriers(node) ==
  LET attrs == OwnedBy(TheNodeAttributes, node)
  IN C3_InlineCarriers(node, {"@id"}, NodeKeyName)
       \o [j \in 1..Len(attrs) |->
             <<NodeKeyName(NameOf(attrs[j])), TypeOfValue(ValueOf(attrs[j]))>>]

C3_EdgeCarriers(edge) ==
  LET attrs == OwnedBy(TheEdgeAttributes, edge)
  IN C3_InlineCarriers(edge, {"@id", "s", "t"}, EdgeKeyName)
       \o [j \in 1..Len(attrs) |-> <<EdgeKeyName(NameOf(attrs[j])), TypeOfRecord(attrs[j])>>]

RECURSIVE C3_AllNodeCarriers(_)
C3_AllNodeCarriers(nodes) ==
  IF nodes = <<>> THEN <<>>
  ELSE C3_NodeCarriers(Head(nodes)) \o C3_AllNodeCarriers(Tail(nodes))

RECURSIVE C3_AllEdgeCarriers(_)
C3_AllEdgeCarriers(edges) ==
  IF edges = <<>> THEN <<>>
  ELSE C3_EdgeCarriers(Head(edges)) \o C3_AllEdgeCarriers(Tail(edges))

C3_NetCarriers ==
  [j \in 1..Len(TheNetworkAttributes) |->
     <<NameOf(TheNetworkAttributes[j]), TypeOfRecord(TheNetworkAttributes[j])>>]

\* the scope has exactly one key for every name carried, and unless the key
\* is one of the fixed ones its type is the type of the first carrier
C3_OneKeyFirstType(keys, carriers, fixed) ==
  \A c \in 1..Len(carriers) :
     LET name == carriers[c][1]
         first == CHOOSE h \in 1..Len(carriers) :
                    /\ carriers[h][1] = name
                    /\ \A g \in 1..(h - 1) : carriers[g][1] /= name
         declared == { j \in 1..Len(keys) : Get(keys[j].attrib, "id") = name }
     IN /\ Cardinality(declared) = 1
        /\ name \notin fixed =>
             \A j \in declared : KeyType(keys[j]) = carriers[first][2]

\* C3: in a finished export every property name carried by the nodes (the
\* edges, the network attributes) has exactly one <key> of that scope, whose
\* attr.type is the type of the first node (edge, record) in document order
\* that carries the name.
C3_KeyDedupFirstSeen ==
  Done =>
    /\ C3_OneKeyFirstType(KeysOf("node"), C3_AllNodeCarriers(TheNodes),
                          {"name", "represents"})
    /\ C3_OneKeyFirstType(KeysOf("edge"), C3_AllEdgeCarriers(TheEdges),
                          {"interaction", "key"})
    /\ C3_OneKeyFirstType(KeysOf("graph"), C3_NetCarriers, {})

(***************************************************************************)
(* C4                                                                      *)
(***************************************************************************)
C4_OnceAsString(keys, name) ==
  /\ Cardinality({ j \in 1..Len(keys) : Get(keys[j].attrib, "id") = name }) = 1
  /\ \A j \in 1..Len(keys) :
        Get(keys[j].attrib, "id") = name => KeyType(keys[j]) = "string"

\* C4: a finished export has declared the node keys name and represents and
\* the edge keys interaction and key, each exactly once and each of
\* attr.type string, also for a document with no node and no edge.
C4_FixedKeys ==
  Done =>
    /\ C4_OnceAsString(KeysOf("node"), "name")
    /\ C4_OnceAsString(KeysOf("node"), "represents")
    /\ C4_OnceAsString(KeysOf("edge"), "interaction")
    /\ C4_OnceAsString(KeysOf("edge"), "key")

\* a finished export of a document without nodes and without edges
C4_Witness == Done /\ TheNodes = <<>> /\ TheEdges = <<>>

(***************************************************************************)
(* C5                                                                      *)
(***************************************************************************)
RECURSIVE C5_Joined(_)
\* the items, each in its string form, joined with |
C5_Joined(elems) ==
  IF elems = <<>> THEN ""
  ELSE IF Len(elems) = 1 THEN str(elems[1])
  ELSE str(elems[1]) \o "|" \o C5_Joined(Tail(elems))

C5_Text(v) == IF v.t = "list" THEN C5_Joined(v.l) ELSE str(v)

\* the <data> of the element that stand for the attribute records: those
\* after the <data> of the inline properties
C5_AttributeData(w, item, skipped) ==
  SubSeq(w.children, Len(InlineNames(item, skipped)) + 1, Len(w.children))

\* one <data> per record, with the text the claim gives the value, and a
\* key of type string in the scope for every record whose value is a list
C5_Rendered(data, attrs, keys, Tr(_)) ==
  /\ Len(data) = Len(attrs)
  /\ \A h \in 1..Len(attrs) :
        /\ data[h].text = C5_Text(ValueOf(attrs[h]))
        /\ ValueOf(attrs[h]).t = "list" =>
             \E j \in 1..Len(keys) :
                /\ Get(keys[j].attrib, "id") = Tr(NameOf(attrs[h]))
                /\ KeyType(keys[j]) = "string"

C5_Same(name) == name

\* C5: in a finished export the <data> of a node, edge or network attribute
\* whose value is a list holds the items joined with |, and a key of type
\* string declares it; the <data> of a scalar holds its string form.
C5_ListRendering ==
  Done =>
    /\ C5_Rendered(ElementsOf("data"), TheNetworkAttributes, KeysOf("graph"), C5_Same)
    /\ \A j \in 1..Len(TheNodes) :
          C5_Rendered(C5_AttributeData(ElementsOf("node")[j], TheNodes[j], {"@id"}),
                      OwnedBy(TheNodeAttributes, TheNodes[j]), KeysOf("node"), NodeKeyName)
    /\ \A j \in 1..Len(TheEdges) :
          C5_Rendered(C5_AttributeData(ElementsOf("edge")[j], TheEdges[j], {"@id", "s", "t"}),
                      OwnedBy(TheEdgeAttributes, TheEdges[j]), KeysOf("edge"), EdgeKeyName)

(***************************************************************************)
(* ET.ElementTree(el).write(out, encoding='unicode'): the text of an        *)
(* element.  No XML declaration is written for this encoding, and an       *)
(* element with no text and no children is written in the short form.      *)
(***************************************************************************)
\* the escape of & in text and in attribute values, tabulated for the
\* strings of the documents (the only one that holds a character to escape)
_escape_cdata(text) == IF text = "B&C" THEN "B&amp;C" ELSE text

RECURSIVE serialize_attrib(_)
serialize_attrib(attrib) ==
  IF attrib = <<>> THEN ""
  ELSE " " \o Head(attrib)[1] \o "=\"" \o _escape_cdata(Head(attrib)[2]) \o "\""
         \o serialize_attrib(Tail(attrib))

RECURSIVE ElementTree_write(_)
RECURSIVE serialize_children(_)
serialize_children(children) ==
  IF children = <<>> THEN ""
  ELSE ElementTree_write(Head(children)) \o serialize_children(Tail(children))

ElementTree_write(el) ==
  LET open == "<" \o el.tag \o serialize_attrib(el.attrib)
  IN IF el.text = "" /\ el.children = <<>> THEN open \o " />"
     ELSE open \o ">" \o _escape_cdata(el.text) \o serialize_children(el.children)
            \o "</" \o el.tag \o ">"

(***************************************************************************)
(* C6                                                                      *)
(***************************************************************************)
C6_Declaration == "<?xml version=\"1.0\" encoding=\"UTF-8\" standalone=\"no\"?>"

\* what may follow the declaration in the first write
C6_Tails == {"", "\n<graphml xmlns=\"http://graphml.graphdrawing.org/xmlns\">\n"}

C6_StartsWith(w, prefix) ==
  w.kind = "raw" /\ \E tail \in C6_Tails : w.text = prefix \o tail

\* a node whose only property is n = "A", with id 2 and no attributes
C6_IsNodeA(node) ==
  /\ node = << <<"@id", IntV(2)>>, <<"n", StrV("A")>> >>
  /\ OwnedBy(TheNodeAttributes, node) = <<>>

C6_NodeA == "<node id=\"2\"><data key=\"name\">A</data></node>"

\* the element written for the node: its id, and first one <data> per
\* inline property but @id, with the translated name and the value
C6_Serialized(w, node) ==
  LET names == InlineNames(node, {"@id"})
  IN /\ w.attrib = << <<"id", str(IdOf(node))>> >>
     /\ Len(w.children) >= Len(names)
     /\ \A h \in 1..Len(names) :
           /\ IsElement(w.children[h], "data")
           /\ w.children[h].attrib = << <<"key", NodeKeyName(names[h])>> >>
           /\ w.children[h].text = str(Get(node, names[h]))
     /\ OwnedBy(TheNodeAttributes, node) = <<>> => Len(w.children) = Len(names)
     /\ C6_IsNodeA(node) => ElementTree_write(w) = C6_NodeA

C6_AllSerialized(written, nodes) ==
  /\ Len(written) = Len(nodes)
  /\ \A j \in 1..Len(nodes) : C6_Serialized(written[j], nodes[j])

\* C6: the output starts with the XML declaration, and a finished export
\* holds exactly one <node> per node of the input, in document order, with
\* the node's id and one <data> per inline property other than @id, keyed
\* name for n and represents for r; the node 2 whose only property is
\* n = "A" is written as <node id="2"><data key="name">A</data></node>.
C6_NodeSerialization ==
  /\ out /= <<>> => C6_StartsWith(out[1], C6_Declaration)
  /\ Done => C6_AllSerialized(ElementsOf("node"), TheNodes)

C6_Witness ==
  /\ Done
  /\ C6_StartsWith(out[1], C6_Declaration)
  /\ \E j \in 1..Len(TheNodes) :
        C6_IsNodeA(TheNodes[j]) /\ ElementTree_write(ElementsOf("node")[j]) = C6_NodeA
  /\ \E j \in 1..Len(TheNodes) :
        /\ HasKey(TheNodes[j], "r")
        /\ ElementTree_write(ElementsOf("node")[j]) =
             "<node id=\"3\"><data key=\"name\">B</data>"
               \o "<data key=\"represents\">B&amp;C</data><data key=\"score\">4</data></node>"

(***************************************************************************)
(* C7                                                                      *)
(***************************************************************************)
C7_Loaded == pc \notin {"export", "raised"}

RECURSIVE C7_Size(_, _, _)
\* how many items the first p fragments of the document give the aspect
C7_Size(cx, aspect, p) ==
  IF p = 0 THEN 0
  ELSE C7_Size(cx, aspect, p - 1)
         + (IF cx[p].aspect = aspect THEN Len(cx[p].items) ELSE 0)

\* the collection holds the items of every fragment of the aspect, each
\* fragment after the items of the fragments before it, and nothing else
C7_Concatenated(cx, aspect, loaded) ==
  /\ Len(loaded) = C7_Size(cx, aspect, Len(cx))
  /\ \A p \in 1..Len(cx) :
        cx[p].aspect = aspect =>
          \A q \in 1..Len(cx[p].items) :
             loaded[C7_Size(cx, aspect, p - 1) + q] = cx[p].items[q]

C8_Merged(w, attrs, Tr(_)) ==
  \A h \in 1..Len(attrs) :
     LET name == NameOf(attrs[h])
         same == SelectSeq(attrs, LAMBDA a : NameOf(a) = name)
         carried == SelectSeq(w.children,
                              LAMBDA d : Get(d.attrib, "key") = Tr(name))
     IN /\ Len(carried) = 1
        /\ carried[1].text = str(ValueOf(same[Len(same)]))

\* C8: in a finished export the element of a node (an edge) holds, for every
\* attribute name its nodeAttributes (edgeAttributes) records carry, exactly
\* one <data>, with the value of the last record of that name.
C8_LastWriteWins ==
  Done =>
    /\ \A j \in 1..Len(TheNodes) :
          C8_Merged(ElementsOf("node")[j],
                    OwnedBy(TheNodeAttributes, TheNodes[j]), NodeKeyName)
    /\ \A j \in 1..Len(TheEdges) :
          C8_Merged(ElementsOf("edge")[j],
                    OwnedBy(TheEdgeAttributes, TheEdges[j]), EdgeKeyName)

(***************************************************************************)
(* C9                                                                      *)
(***************************************************************************)
\* the records of attrs whose owner is the id of none of the items
C9_Orphans(attrs, items) ==
  SelectSeq(attrs, LAMBDA a : \A j \in 1..Len(items) : OwnerOf(a) /= IdOf(items[j]))

\* the element holds the <data> of the inline properties and then one per
\* record the item owns, in document order, and no other
C9_OnlyOwn(w, item, skipped, attrs, Tr(_)) ==
  LET inline == Len(InlineNames(item, skipped))
  IN /\ Len(w.children) = inline + Len(attrs)
     /\ \A h \in 1..Len(attrs) :
           /\ Get(w.children[inline + h].attrib, "key") = Tr(NameOf(attrs[h]))
           /\ w.children[inline + h].text = str(ValueOf(attrs[h]))

\* C9: a nodeAttributes (edgeAttributes) record whose po is the id of no
\* node (edge) is dropped: every node and edge element of a finished export
\* holds the <data> of its own properties and records only, the export of a
\* document json accepts never raises, and it returns 0.
C9_OrphansDropped ==
  /\ pc = "raised" => ~inputstream.valid
  /\ Done =>
       /\ result = {0}
       /\ Len(ElementsOf("node")) = Len(TheNodes)
       /\ Len(ElementsOf("edge")) = Len(TheEdges)
       /\ \A j \in 1..Len(TheNodes) :
             C9_OnlyOwn(ElementsOf("node")[j], TheNodes[j], {"@id"},
                        OwnedBy(TheNodeAttributes, TheNodes[j]), NodeKeyName)
       /\ \A j \in 1..Len(TheEdges) :
             C9_OnlyOwn(ElementsOf("edge")[j], TheEdges[j], {"@id", "s", "t"},
                        OwnedBy(TheEdgeAttributes, TheEdges[j]), C5_Same)

\* a finished export of a document with a node that owns records, a node
\* record and an edge record that nothing owns, and an edge
C9_Witness ==
  /\ Done
  /\ result = {0}
  /\ C9_Orphans(TheNodeAttributes, TheNodes) /= <<>>
  /\ C9_Orphans(TheEdgeAttributes, TheEdges) /= <<>>
  /\ \E j \in 1..Len(TheNodes) : OwnedBy(TheNodeAttributes, TheNodes[j]) /= <<>>
  /\ TheEdges /= <<>>

(***************************************************************************)
(* C10                                                                     *)
(***************************************************************************)
\* the network attributes named "name"
C10_Named == SelectSeq(TheNetworkAttributes, LAMBDA a : NameOf(a) = "name")

\* the id the <graph> is to carry
C10_Id == IF C10_Named = <<>> THEN "unknown" ELSE str(ValueOf(C10_Named[1]))

C10_Opening(id) == "\n  <graph edgedefault=\"directed\" id=\"" \o id \o "\">\n"

\* the <graph ...> openings written so far
C10_Openings == SelectSeq(out, LAMBDA w : w.kind = "raw" /\ w.text \in C1_GraphOpenings)

\* C10: the id of the <graph> element is the value of the network attribute
\* named "name" when the document has one and "unknown" when it has none,
\* and a document without a name is exported to the end.
C10_GraphId ==
  /\ pc = "raised" => ~inputstream.valid
  /\ pc \in {"data", "nodes", "edges", "close", "done"} =>
       /\ Len(C10_Openings) = 1
       /\ C10_Openings[1].text = C10_Opening(C10_Id)

(***************************************************************************)
(* C11                                                                     *)
(***************************************************************************)
\* the names of the network attributes but "name"
C11_OtherNames ==
  { NameOf(a) : a \in Range(TheNetworkAttributes) } \ {"name"}

\* the records of the network attribute of that name
C11_Records(name) == SelectSeq(TheNetworkAttributes, LAMBDA a : NameOf(a) = name)

\* the graph keys and the graph-level <data> of that name
C11_Keys(name) == SelectSeq(KeysOf("graph"), LAMBDA w : Get(w.attrib, "id") = name)
C11_Data(name) == SelectSeq(ElementsOf("data"), LAMBDA w : Get(w.attrib, "key") = name)

\* C11: a finished export holds no graph key and no graph-level <data> for
\* the network attribute "name", and for every other network attribute name
\* exactly one graph key and one <data> per record.
C11_NameConsumed ==
  Done =>
    /\ C11_Keys("name") = <<>>
    /\ C11_Data("name") = <<>>
    /\ \A name \in C11_OtherNames :
          /\ Len(C11_Keys(name)) = 1
          /\ Len(C11_Data(name)) = Len(C11_Records(name))

C13_Written(written) ==
  written /= <<>> /\ written[Len(written)] = Raw("\n</graph>\n</graphml>\n")

\* C13: what main leaves on standard output and the code it returns are
\* set by the document on standard input alone, whatever the number of
\* --verbose flags, none included: a document json accepts is written out
\* and main returns 0, a rejected one leaves nothing and main returns 2.
C13_VerboseOnlyLogs ==
  pc = "exited" =>
     /\ inputstream.valid => (exit_code = {0} /\ C13_Written(out))
     /\ ~inputstream.valid => (exit_code = {2} /\ out = <<>>)

(***************************************************************************)
(* C14                                                                     *)
(***************************************************************************)
\* C14: main returns 0 only when export returned 0, with the document
\* written; when _setuplogging or export raised it returns a code other
\* than 0; main is left only through its finally, after logging.shutdown().
C14_ExitCode ==
  /\ logging_shutdown <=> pc = "exited"
  /\ pc \in {"finally", "exited"} =>
       /\ exit_code /= {}
       /\ exit_code = {0} <=> result = {0}
       /\ exit_code = {0} => C13_Written(out)
       /\ result = {} => exit_code = {2}
  /\ pc \notin {"finally", "exited"} => exit_code = {}

\* main has returned 2 for an export that raised, after logging.shutdown()
C14_Witness ==
  /\ pc = "exited"
  /\ verbose /= NoVerbose
  /\ ~inputstream.valid
  /\ exit_code = {2}
  /\ logging_shutdown

(***************************************************************************)
(* C15                                                                     *)
(***************************************************************************)
\* reading ge.<name> gives None
C15_IsNone(name) == HasKey(attributes, name) /\ Get(attributes, name) = NoneV

\* C15: on a newly constructed GraphMLExporter, and after every
\* _clear_internal_variables() whatever was set before, _nodes, _net_attr
\* and _keys_edge are None.
C15_InternalReset ==
  pc \in {"constructed", "cleared"} => \A name \in InternalVariables : C15_IsNone(name)

(***************************************************************************)
(* C16                                                                     *)
(***************************************************************************)
C16_Types == {"string", "integer", "long", "double", "boolean"}

\* the declared types that name a list, and the runtime type of a list
C16_ListLike ==
  {"list", "list_of_integer", "list_of_long", "list_of_double",
   "list_of_string", "list_of_boolean"}

\* the type the converter is to give the token
C16_Converted(token) ==
  CASE token = "int" -> "integer"
    [] token = "str" -> "string"
    [] token = "bool" -> "boolean"
    [] token = "float" -> "double"
    [] token \in C16_ListLike -> "string"
    [] OTHER -> token

\* the tokens the document hands the converter: the declared type of a
\* record that has one, and the runtime type of every value but None
C16_RecordTokens(attrs) ==
  { Get(a, D_KEY).s : a \in { r \in Range(attrs) : HasKey(r, D_KEY) } }
    \cup { ValueOf(a).t : a \in { r \in Range(attrs) : ValueOf(r) /= NoneV } }

C16_Tokens ==
  C16_RecordTokens(TheNodeAttributes) \cup C16_RecordTokens(TheEdgeAttributes)
    \cup C16_RecordTokens(TheNetworkAttributes)

\* C16: every attr.type written on a <key> is one of string, integer, long,
\* double and boolean, and the converter gives every type token of the
\* document a type of that set: integer for int, string for str, boolean for
\* bool, double for float, long and double as they are, and string for a
\* list_of_* declared type and for the runtime type list.
C16_ClosedTypeSet ==
  /\ \A j \in 1..Len(out) :
        (IsElement(out[j], "key") /\ HasKey(out[j].attrib, "attr.type")) =>
           Get(out[j].attrib, "attr.type") \in C16_Types
  /\ Done =>
       \A token \in C16_Tokens :
          /\ _convert_data_type(token) \in C16_Types
          /\ _convert_data_type(token) = C16_Converted(token)

(***************************************************************************)
(* C17                                                                     *)
(***************************************************************************)
\* what a newly constructed exporter writes for the stream, for one order
\* of iteration of each of the two sets of fixed keys
C17_Fresh(stream, node_order, edge_order) ==
  LET net == _loadcx(stream)
  IN << Raw(XmlHeader) >>
       \o _generate_xml_for_net_keys(net)
       \o _generate_xml_for_node_keys(net, node_order)
       \o _generate_xml_for_edge_keys(net, edge_order)
       \o << Raw(GraphOpen(net)) >>
       \o _generate_xml_for_data(net)
       \o _generate_xml_for_nodes(net)
       \o _generate_xml_for_edges(net)
       \o << Raw(GraphClose) >>

\* the writes are the first writes of the sequence
C17_StartOf(written, whole) ==
  Len(written) <= Len(whole) /\ written = SubSeq(whole, 1, Len(written))

\* C17: whatever calls were made on the exporter before, what an export call
\* has written is the start of what a newly constructed exporter writes for
\* the stream of the call, and all of it when the call returns; a call that
\* raised wrote nothing and left no network behind.
C17_NoCrossCallState ==
  /\ pc = "raised" => (out = <<>> /\ cxnetwork = None_cx)
  /\ pc = "export" => out = <<>>
  /\ pc \in {"_generate_xml", "net_keys", "node_keys", "edge_keys", "graph",
             "data", "nodes", "edges", "close", "done"} =>
       \E node_order \in Orders("name", "represents") :
          \E edge_order \in Orders("interaction", "key") :
             LET fresh == C17_Fresh(inputstream, node_order, edge_order)
             IN /\ C17_StartOf(out, fresh)
                /\ Done => out = fresh

\* a second call on the exporter has returned
C17_Witness == Done /\ calls >= 2 /\ TheNodes /= <<>> /\ result = {0}

(***************************************************************************)
(* C18                                                                     *)
(***************************************************************************)
\* the XML escape of the text: of the strings of the documents only B&C
\* holds one of <, >, & and "
C18_Escaped(text) == IF text = "B&C" THEN "B&amp;C" ELSE text

\* the text of a <data> whose key and content are escaped
C18_Data(d) ==
  LET open == "<data key=\"" \o C18_Escaped(Get(d.attrib, "key")) \o "\""
  IN IF d.text = "" THEN open \o " />"
     ELSE open \o ">" \o C18_Escaped(d.text) \o "</data>"

\* every <data> of the writes is written escaped
C18_DataEscaped(written) ==
  \A j \in 1..Len(written) :
     /\ IsElement(written[j], "data") =>
          ElementTree_write(written[j]) = C18_Data(written[j])
     /\ \A h \in 1..Len(written[j].children) :
          ElementTree_write(written[j].children[h]) = C18_Data(written[j].children[h])

\* C18: in a finished export the key and the text of every <data> are
\* XML-escaped, and the id of the <graph>, taken from the network attribute
\* "name", is the escaped name.
C18_XmlEscaped ==
  Done =>
    /\ C18_DataEscaped(out)
    /\ C10_Named /= <<>> =>
         \E j \in 1..Len(out) :
            /\ out[j].kind = "raw"
            /\ out[j].text = C10_Opening(C18_Escaped(str(ValueOf(C10_Named[1]))))
====
